---- MODULE Spec2Model ----
(***************************************************************************)
(* DRADIS: the store (src/src/database.py), the fast parallel analyzer     *)
(* (src/src/fast_analyzer.py), the fast harvest that drives it             *)
(* (src/src/dradis.py, src/src/arxiv_monitor.py) and the composite score   *)
(* of the relevance engine (src/src/relevance_engine.py,                   *)
(* src/src/friends_manager.py).                                            *)
(*                                                                         *)
(* Time is counted in ticks of 1/15 s, so that the 0.2 s spacing of the    *)
(* rate gate is 3 ticks, the 5 s window is 75 ticks and 5 s / 15 is 5      *)
(* ticks.  Only time.sleep lets time pass: every other step takes no time  *)
(* (the negligible-compute case).  The clock is read relative to the       *)
(* moment the process last went idle, and a last_request_time that lies    *)
(* MinSpacing or more before that moment is kept as -MinSpacing: the code  *)
(* uses the two only in wait_time, which is <= 0 for all of them.          *)
(***************************************************************************)
EXTENDS Integers, Sequences, FiniteSets, TLC

(* ---------------------------- bounds ---------------------------------- *)
MaxPapers == 2
NumWorkers == 2
SmallBatch == 1
RatePapers == 16
MaxClock == 3
MaxCalls == 2
SpareWorkers == 1
MaxRaises == 1
MaxAuthors == 2
MaxFriends == 2
MaxRanked == 4
MaxSamples == 6

(* ----------------------- program constants ---------------------------- *)
DefaultBatchSize == 20
Permits == 15
MinSpacing == 3
WindowTicks == 75
FlagThreshold == 7
(* return 0 of "No user profile found" *)
ProfileMissingReturn == 0

(* windowDuration / maxRequestsPerWindow *)
QuotaSpacing == WindowTicks \div Permits

(* The ids of the papers of the feeds; those the harvests of Spec meet *)
PaperIds == 1..RatePapers
SmallIds == 1..MaxPapers
(* The profiles update_user_profile stores: with research_keywords *)
ProfileKinds == {"kw"}
Responses == {"json", "malformed", "raise"}
Bodies == Responses \cup {"truncated"}

VARIABLES
  papers,             \* ids of the rows of table papers
  processed,          \* papers.processed, per id
  paper_analysis,     \* table paper_analysis, per id (NoRow: no row)
  user_profile,       \* "none" | "nokw" (no research_keywords) | "kw"
  hpc,                \* position of run_fast_harvest
  pc,                 \* position of fast_analyze_pending_papers
  pending,            \* its local list papers
  batch_size,         \* its parameter
  i,                  \* offset of the current batch in pending
  results,            \* results of analyze_paper_batch, in completion order
  k,                  \* index of the result being persisted
  analyzed_count,     \* its local counter
  ret,                \* its return value (-1: not returned)
  max_workers,        \* FastPaperAnalyzer.max_workers
  queue,              \* work queue of the ThreadPoolExecutor
  wk,                 \* per worker thread: position, paper, wait_time
  request_lock,       \* the workers inside with self.request_lock
  last_request_time,  \* FastPaperAnalyzer.last_request_time
  rate_limiter,       \* free permits of FastPaperAnalyzer.rate_limiter
  now,                \* time.time(), since the process last went idle
  save_errors,        \* ids logged "Failed to save paper analysis", this run
  saved,              \* ids whose save_paper_analysis succeeded, this run
  marked,             \* ids whose mark_paper_processed succeeded, this run
  analysis_errors,    \* ids logged "Single paper analysis failed", this run
  claims,             \* per id: how often a worker took it, this run
  dispatched,         \* ids sent to model.generate_content, this run
  dispatch_times,     \* times of the generate_content calls, this batch
  ever_marked,        \* ids some mark_paper_processed has marked
  retry_due,          \* ids left unprocessed by a failed write of a past run
  h_retry,            \* retry_due as run_fast_harvest found it
  wall_clock,         \* datetime.now(), in half days since the engine started
  score_input,        \* the arguments of calculate_composite_score
  score_calls,        \* its calls so far: the clock at the call, the outcome
  rank_call,          \* the last ranked read: its input, clock and result
  friends,            \* FriendsManager.friends: the names of its entries
  document,           \* the paper dict a caller of the friends manager holds
  fm_call             \* the last call of the friends manager and its result

store_vars == <<papers, processed, paper_analysis, user_profile>>
run_vars == <<pc, pending, batch_size, i, results, k, analyzed_count, ret>>
pool_vars == <<queue, wk>>
gate_vars == <<request_lock, last_request_time, rate_limiter, now>>
log_vars == <<save_errors, saved, marked, analysis_errors, claims, dispatched,
              dispatch_times, ever_marked, retry_due, h_retry>>
score_vars == <<wall_clock, score_input, score_calls, rank_call>>
(* What no step of the analyzer changes *)
friend_vars == <<friends, document, fm_call>>
rest_vars == <<max_workers, score_vars, friend_vars>>
analyzer_vars == <<store_vars, hpc, run_vars, max_workers, pool_vars,
                   gate_vars, log_vars>>
vars == <<analyzer_vars, score_vars, friend_vars>>

(* ------------------------------ helpers ------------------------------- *)
Range(s) == {s[n] : n \in 1..Len(s)}

Min(a, b) == IF a < b THEN a ELSE b

Max(a, b) == IF a > b THEN a ELSE b

(* self.last_request_time = 0 of the constructor: the epoch, long ago *)
LongAgo == 0 - MinSpacing

NoRow == [relevance_score |-> -1, flagged |-> FALSE]

IdleWorker == [pc |-> "idle", paper |-> 0, wait_time |-> 0]

WorkerIds == 1..max_workers

(* Paper 1 is the paper whose title and abstract hold neither a built-in   *)
(* physics keyword nor a keyword of the profile.                           *)
has_physics(p) == p # 1

has_user_relevance(p) == p # 1

(* --------------------------- database.py ------------------------------ *)
(* INSERT OR REPLACE INTO papers (...): the row is replaced, and the       *)
(* column processed, not in the column list, takes its default FALSE.      *)
add_paper(proc, p) == [proc EXCEPT ![p] = FALSE]

RECURSIVE OrderDesc(_)
OrderDesc(S) ==
  IF S = {} THEN <<>>
  ELSE LET m == CHOOSE x \in S : \A y \in S : y <= x
       IN <<m>> \o OrderDesc(S \ {m})

(* SELECT * FROM papers WHERE processed = FALSE ORDER BY published_date    *)
(* DESC; a paper with a larger id was published later.                     *)
get_unprocessed_papers(ps, proc) == OrderDesc({p \in ps : ~proc[p]})

(* UPDATE papers SET processed = TRUE WHERE id = ? *)
mark_paper_processed(ps, proc, p) ==
  IF p \in ps THEN [proc EXCEPT ![p] = TRUE] ELSE proc

(* INSERT OR REPLACE INTO paper_analysis: score and flagged are stored,    *)
(* reasoning is not.                                                       *)
save_paper_analysis(pa, p, analysis) ==
  [pa EXCEPT ![p] = [relevance_score |-> analysis.relevance_score,
                     flagged |-> analysis.flagged]]

(* ------------------------- fast_analyzer.py --------------------------- *)
quick_filter_PassAll(p, profile) == TRUE

quick_filter(p, profile) ==
  IF profile = "nokw" THEN TRUE
  ELSE has_physics(p) \/ has_user_relevance(p)

Prefiltered ==
  [relevance_score |-> 0, flagged |-> FALSE,
   reasoning |-> "Pre-filtered as irrelevant"]

AnalysisFailed ==
  [relevance_score |-> 0, flagged |-> FALSE, reasoning |-> "Analysis failed"]

(* json.loads and the setdefault calls: flagged defaults to score >= 0.7 *)
ParsedAnalysis(score) ==
  [relevance_score |-> score, flagged |-> (score >= FlagThreshold),
   reasoning |-> "Analysis completed"]

(* re.search(r'"relevance_score"[:\s]*([0-9.]+)', response_text) on the    *)
(* bodies of the model: the number found, in tenths, or NoMatch            *)
NoMatch == -1

score_match(r) == IF r = "truncated" THEN 9 ELSE NoMatch

parse_fallback_Unflagged(m) ==
  [relevance_score |-> IF m # NoMatch THEN m ELSE 0, flagged |-> FALSE,
   reasoning |-> "Parsed from malformed response"]

(* _parse_fallback: the score the regex finds in the body, else 0.0 *)
parse_fallback(m) ==
  LET score == IF m # NoMatch THEN m ELSE 0
  IN [relevance_score |-> score, flagged |-> (score >= FlagThreshold),
      reasoning |-> "Parsed from malformed response"]

(* What analyze_single_paper returns for a response of the classifier:     *)
(* "json" a JSON object, "malformed" a body that is no JSON and holds no   *)
(* score, "truncated" a body that is no JSON and holds a score, "raise"    *)
(* an exception.                                                           *)
analysis_of(r) ==
  CASE r = "json" -> ParsedAnalysis(9)
    [] r \in {"malformed", "truncated"} -> parse_fallback(score_match(r))
    [] OTHER -> AnalysisFailed

(* wait_time = 0.2 - (current_time - self.last_request_time) *)
wait_time_of(current_time, last) == MinSpacing - (current_time - last)

(* batch = papers[i:i + batch_size] *)
batch_of(ps, off, bs) == SubSeq(ps, off + 1, Min(off + bs, Len(ps)))

(* ------------------------- friends_manager.py ------------------------- *)
(* A string is the sequence of its characters.  Similarities are counted   *)
(* in thousandths.                                                         *)
Milli == 1000

UpperCase ==
  <<"A", "B", "C", "D", "E", "F", "G", "H", "I", "J", "K", "L", "M",
  "N", "O", "P", "Q", "R", "S", "T", "U", "V", "W", "X", "Y", "Z">>

LowerCase ==
  <<"a", "b", "c", "d", "e", "f", "g", "h", "i", "j", "k", "l", "m",
  "n", "o", "p", "q", "r", "s", "t", "u", "v", "w", "x", "y", "z">>

(* str.lower, character by character *)
lower_char(c) ==
  IF \E n \in 1..Len(UpperCase) : UpperCase[n] = c
  THEN LowerCase[CHOOSE n \in 1..Len(UpperCase) : UpperCase[n] = c]
  ELSE c

lower(str) == [n \in 1..Len(str) |-> lower_char(str[n])]

(* \w of the regular expressions, on the characters of the names *)
is_word(str, n) ==
  /\ n \in 1..Len(str)
  /\ lower_char(str[n]) \in Range(LowerCase)

(* \b before position n *)
word_boundary(str, n) == is_word(str, n - 1) # is_word(str, n)

(* Dr|Prof|Professor|PhD|Ph\.D\. in the order of the alternation *)
Titles ==
  << <<"d", "r">>, <<"p", "r", "o", "f">>,
     <<"p", "r", "o", "f", "e", "s", "s", "o", "r">>, <<"p", "h", "d">>,
     <<"p", "h", ".", "d", ".">> >>

(* \b(title)\b at position n, with re.IGNORECASE *)
title_at(str, n, title) ==
  /\ n + Len(title) - 1 <= Len(str)
  /\ \A m \in 1..Len(title) : lower_char(str[n + m - 1]) = title[m]
  /\ word_boundary(str, n)
  /\ word_boundary(str, n + Len(title))

(* The length of the match of \b(Dr|Prof|Professor|PhD|Ph\.D\.)\b\.? that  *)
(* starts at position n: the first alternative that fits, and the dot      *)
(* after it if there is one; 0 if none fits.                               *)
title_length(str, n) ==
  LET first_of(fits) ==
        IF fits = {} THEN 0
        ELSE LET t == CHOOSE x \in fits : \A y \in fits : x <= y
                 end == n + Len(Titles[t])
             IN IF end <= Len(str) /\ str[end] = "." THEN Len(Titles[t]) + 1
                ELSE Len(Titles[t])
  IN first_of({t \in 1..Len(Titles) : title_at(str, n, Titles[t])})

(* re.sub(r'\b(Dr|Prof|Professor|PhD|Ph\.D\.)\b\.?', '', name) from n on *)
RECURSIVE strip_titles(_, _)
strip_titles(str, n) ==
  LET skip(length) ==
        IF length > 0 THEN strip_titles(str, n + length)
        ELSE <<str[n]>> \o strip_titles(str, n + 1)
  IN IF n > Len(str) THEN <<>> ELSE skip(title_length(str, n))

(* str.split(): the words between runs of blanks, from position n on, word *)
(* being the word under way                                                *)
RECURSIVE split_from(_, _, _)
split_from(str, n, word) ==
  LET done == IF word = <<>> THEN <<>> ELSE <<word>>
  IN IF n > Len(str) THEN done
     ELSE IF str[n] = " " THEN done \o split_from(str, n + 1, <<>>)
     ELSE split_from(str, n + 1, Append(word, str[n]))

split(str) == split_from(str, 1, <<>>)

(* ' '.join(words) *)
RECURSIVE join(_)
join(words) ==
  IF words = <<>> THEN <<>>
  ELSE IF Len(words) = 1 THEN words[1]
  ELSE words[1] \o <<" ">> \o join(Tail(words))

(* re.sub(r'\s+', ' ', name.strip()) *)
collapse(str) == join(split(str))

normalize_name(name) == lower(collapse(strip_titles(name, 1)))

(* str.replace('.', ' ') *)
undot(str) == [n \in 1..Len(str) |-> IF str[n] = "." THEN " " ELSE str[n]]

(* The first letters of the words *)
first_letters(words) == [n \in 1..Len(words) |-> words[n][1]]

extract_name_components(name) ==
  LET arxiv_format(norm, parts) ==
        IF Len(parts) >= 2
        THEN [surname |-> parts[Len(parts)],
              initials |-> first_letters(SubSeq(parts, 1, Len(parts) - 1))]
        ELSE [surname |-> norm, initials |-> <<>>]
      components(norm) ==
        LET commas == {n \in 1..Len(norm) : norm[n] = ","}
        IN IF commas # {}
           THEN LET at == CHOOSE x \in commas : \A y \in commas : x <= y
                    given_part == SubSeq(norm, at + 1, Len(norm))
                IN [surname |-> collapse(SubSeq(norm, 1, at - 1)),
                    initials |-> first_letters(split(undot(given_part)))]
           ELSE arxiv_format(norm, split(norm))
  IN components(normalize_name(name))

(* difflib.SequenceMatcher without junk.  The length of the common run of  *)
(* a from m and b from n, inside a[..ahi] and b[..bhi]                     *)
RECURSIVE run_length(_, _, _, _, _, _)
run_length(a, b, m, n, ahi, bhi) ==
  IF m > ahi \/ n > bhi THEN 0
  ELSE IF a[m] # b[n] THEN 0
  ELSE 1 + run_length(a, b, m + 1, n + 1, ahi, bhi)

(* find_longest_match: the longest block, the one that starts earliest in  *)
(* a and, of those, earliest in b                                          *)
find_longest_match(a, b, alo, ahi, blo, bhi) ==
  LET blocks == {<<m, n, run_length(a, b, m, n, ahi, bhi)>> :
                   m \in alo..ahi, n \in blo..bhi}
  IN CHOOSE x \in blocks :
       \A y \in blocks :
         \/ x[3] > y[3]
         \/ x[3] = y[3] /\ x[1] < y[1]
         \/ x[3] = y[3] /\ x[1] = y[1] /\ x[2] <= y[2]

(* get_matching_blocks: the sum of the sizes of the blocks *)
RECURSIVE matching(_, _, _, _, _, _)
matching(a, b, alo, ahi, blo, bhi) ==
  LET around(x) ==
        IF x[3] = 0 THEN 0
        ELSE x[3] + matching(a, b, alo, x[1] - 1, blo, x[2] - 1)
                  + matching(a, b, x[1] + x[3], ahi, x[2] + x[3], bhi)
  IN IF alo > ahi \/ blo > bhi THEN 0
     ELSE around(find_longest_match(a, b, alo, ahi, blo, bhi))

(* SequenceMatcher(None, a, b): matches M and total length T; ratio() is   *)
(* 2.0 * M / T, and 1.0 when T is 0                                        *)
SequenceMatcher(a, b) ==
  [matches |-> matching(a, b, 1, Len(a), 1, Len(b)),
   length |-> Len(a) + Len(b)]

ratio(sm) ==
  IF sm.length = 0 THEN Milli ELSE (2 * sm.matches * Milli) \div sm.length

(* ratio() < milli / 1000 and ratio() > milli / 1000, exactly *)
ratio_below(sm, milli) ==
  sm.length # 0 /\ 2 * sm.matches * Milli < milli * sm.length

ratio_above(sm, milli) ==
  IF sm.length = 0 THEN Milli > milli
  ELSE 2 * sm.matches * Milli > milli * sm.length

name_similarity_Fuzzy(name1, name2) ==
  LET compare(norm1, norm2) ==
        IF norm1 = norm2 THEN 1000
        ELSE ratio(SequenceMatcher(norm1, norm2))
  IN compare(normalize_name(name1), normalize_name(name2))

name_similarity(name1, name2) ==
  LET by_components(surname_match, initials1, initials2, full_match) ==
        IF ratio_below(surname_match, 850) THEN 0
        ELSE IF initials1 # {} /\ initials2 # {}
             THEN IF initials1 \cap initials2 # {}
                  THEN (IF ratio_above(surname_match, 950) THEN 950
                        ELSE 900)
                  ELSE 300
        ELSE IF ratio_above(surname_match, 900) THEN Max(full_match, 700)
        ELSE full_match
      compare(norm1, norm2, comp1, comp2) ==
        IF norm1 = norm2 THEN 1000
        ELSE by_components(SequenceMatcher(comp1.surname, comp2.surname),
                           Range(comp1.initials), Range(comp2.initials),
                           ratio(SequenceMatcher(norm1, norm2)))
  IN compare(normalize_name(name1), normalize_name(name2),
             extract_name_components(name1), extract_name_components(name2))

(* The names of the model *)
Lasenby_AN ==
  <<"L", "a", "s", "e", "n", "b", "y", ",", " ", "A", ".", "N", ".">>

Anthony_N_Lasenby ==
  <<"A", "n", "t", "h", "o", "n", "y", " ", "N", ".", " ", "L", "a",
  "s", "e", "n", "b", "y">>

Anthony_Lasenby ==
  <<"A", "n", "t", "h", "o", "n", "y", " ", "L", "a", "s", "e", "n",
  "b", "y">>

John_Smith ==
  <<"J", "o", "h", "n", " ", "S", "m", "i", "t", "h">>

Dr_John_Smith ==
  <<"D", "r", ".", " ", "J", "o", "h", "n", " ", "S", "m", "i", "t",
  "h">>

Smith_M ==
  <<"S", "m", "i", "t", "h", ",", " ", "M", ".">>

A_Clark ==
  <<"A", ".", " ", "C", "l", "a", "r", "k">>

A_Clarke ==
  <<"A", ".", " ", "C", "l", "a", "r", "k", "e">>

Clarke ==
  <<"C", "l", "a", "r", "k", "e">>

J_Clarke ==
  <<"J", " ", "C", "l", "a", "r", "k", "e">>

(* A roster entry without a name: friend.get('name', '') *)
NoName == <<>>

Names ==
  {Lasenby_AN, Anthony_N_Lasenby, Anthony_Lasenby, John_Smith,
   Dr_John_Smith, Smith_M, A_Clark, A_Clarke, Clarke, J_Clarke, NoName}

(* name_similarity over the names of the model *)
Similarity ==
  [name1 \in Names, name2 \in Names |-> name_similarity(name1, name2)]

(* self.config['name_match_threshold'] *)
name_match_threshold == 850

(* paper['authors'] is a list of names ("list"), the JSON text of one as    *)
(* the store keeps it ("json"), or a text that is no JSON ("text", names    *)
(* then holds that one text): the list detect_friend_authors iterates      *)
paper_authors_of(authors) == authors.names

NoAuthors == [kind |-> "list", names |-> <<>>]

first_match_Last(friend_name, paper_authors, threshold) ==
  LET found(similarity) ==
        LET hits == {n \in 1..Len(paper_authors) :
                       similarity[n] >= threshold}
        IN IF friend_name = NoName \/ hits = {} THEN <<>>
           ELSE LET n == CHOOSE x \in hits : \A y \in hits : x >= y
                IN <<[friend |-> friend_name,
                      author_name |-> paper_authors[n],
                      similarity |-> similarity[n]]>>
  IN found([n \in 1..Len(paper_authors) |->
              Similarity[friend_name, paper_authors[n]]])

(* The inner loop of detect_friend_authors for one entry of the roster: it *)
(* appends a match for the first author at or above the threshold and      *)
(* breaks; an entry without a name is skipped.                             *)
first_match(friend_name, paper_authors, threshold) ==
  LET found(similarity) ==
        LET hits == {n \in 1..Len(paper_authors) :
                       similarity[n] >= threshold}
        IN IF friend_name = NoName \/ hits = {} THEN <<>>
           ELSE LET n == CHOOSE x \in hits : \A y \in hits : x <= y
                IN <<[friend |-> friend_name,
                      author_name |-> paper_authors[n],
                      similarity |-> similarity[n]]>>
  IN found([n \in 1..Len(paper_authors) |->
              Similarity[friend_name, paper_authors[n]]])

(* for friend in self.friends, from entry n on *)
RECURSIVE detect_from(_, _, _)
detect_from(roster, n, paper_authors) ==
  IF n > Len(roster) THEN <<>>
  ELSE first_match(roster[n], paper_authors, name_match_threshold)
         \o detect_from(roster, n + 1, paper_authors)

detect_friend_authors(paper, roster) ==
  IF paper.authors.names = <<>> THEN <<>>
  ELSE detect_from(roster, 1, paper_authors_of(paper.authors))

is_friend_paper(paper, roster) ==
  Len(detect_friend_authors(paper, roster)) > 0

(* self.config['friend_relevance_boost'] *)
friend_relevance_boost == 300

get_friend_boost(paper, roster) ==
  IF is_friend_paper(paper, roster) THEN friend_relevance_boost ELSE 0

(* remove_friend: the index of the first entry whose name is more than 0.9 *)
(* similar to name; 0 if there is none                                     *)
remove_index(roster, name) ==
  LET hits == {n \in 1..Len(roster) : Similarity[roster[n], name] > 900}
  IN IF hits = {} THEN 0 ELSE CHOOSE x \in hits : \A y \in hits : x <= y

(* self.friends.pop(n) *)
pop(roster, n) ==
  SubSeq(roster, 1, n - 1) \o SubSeq(roster, n + 1, Len(roster))

(* ------------------------ relevance_engine.py ------------------------- *)
(* Scores are counted in thousandths, weights in ten-thousandths, and the  *)
(* weighted sum so in units of 10^-7.  Time is counted in half days.       *)
WeightUnit == 10000
One == Milli * WeightUnit
HalfDaysPerDay == 2

RECURSIVE SumOver(_, _)
SumOver(S, f) ==
  IF S = {} THEN 0
  ELSE LET x == CHOOSE y \in S : TRUE
       IN f[x] + SumOver(S \ {x}, f)

(* The keywords of the profiles of the model; the papers' titles and       *)
(* abstracts are given by the keywords (and words) that occur in them.     *)
Keywords == {"inflation", "axion"}

Categories == {"astro-ph.CO"}

(* self.topic_weights.get(keyword, 0.5) *)
topic_weights(keyword) == IF keyword = "inflation" THEN 800 ELSE 500

(* category_mapping *)
category_mapping(category) ==
  IF category = "astro-ph.CO"
  THEN {"cosmology", "dark matter", "dark energy", "inflation"}
  ELSE {}

(* topic in keyword or keyword in topic: of the strings of the model none  *)
(* is a proper part of another                                             *)
topic_matches(topic, keyword) == topic = keyword

calculate_keyword_similarity(paper, profile) ==
  IF profile.research_keywords = {} THEN 0
  ELSE LET user_keywords == profile.research_keywords
           weight == [kw \in user_keywords |-> topic_weights(kw)]
           total_weight == SumOver(user_keywords, weight)
           matches == SumOver(user_keywords \cap paper.text, weight)
       IN IF total_weight > 0 THEN (matches * Milli) \div total_weight ELSE 0

(* score += 0.3 for every topic of a category of the paper that matches a  *)
(* keyword of the profile; min(score, 1.0)                                 *)
calculate_category_similarity(paper, profile) ==
  LET hits == {ct \in paper.categories \X
                      UNION {category_mapping(c) : c \in paper.categories} :
                 /\ ct[2] \in category_mapping(ct[1])
                 /\ \E kw \in profile.research_keywords :
                      topic_matches(ct[2], kw)}
  IN Min(300 * Cardinality(hits), Milli)

(* "a placeholder": return 0.0 *)
calculate_author_similarity(paper, profile) == 0

(* A prior-work sample of the profile: a dict with title and abstract, or *)
(* a plain title string as profile_builder and the setup dialogue store    *)
(* it; words are the words of its text.                                    *)
DictSample(words) == [is_dict |-> TRUE, words |-> words]

TitleSample(words) == [is_dict |-> FALSE, words |-> words]

(* len(paper_words & user_words) / len(user_words) *)
overlap(paper, sample) ==
  (Cardinality(paper.text \cap sample.words) * Milli)
    \div Cardinality(sample.words)

calculate_citation_potential_AllSamples(paper, profile) ==
  LET user_papers == profile.previous_papers
      overlaps == {overlap(paper, user_papers[n]) :
                   n \in {m \in 1..Len(user_papers) :
                            /\ user_papers[m].is_dict
                            /\ user_papers[m].words # {}}}
      overlap_score == IF overlaps = {} THEN 0
                       ELSE CHOOSE o \in overlaps : \A q \in overlaps : q <= o
  IN Min(overlap_score, Milli)

(* The largest share of the words of one of the user's first five papers   *)
(* that occur in the paper, over the samples that are dicts;               *)
(* min(overlap_score, 1.0)                                                 *)
calculate_citation_potential(paper, profile) ==
  LET user_papers == profile.previous_papers
      overlaps == {overlap(paper, user_papers[n]) :
                   n \in {m \in 1..Min(Len(user_papers), 5) :
                            /\ user_papers[m].is_dict
                            /\ user_papers[m].words # {}}}
      overlap_score == IF overlaps = {} THEN 0
                       ELSE CHOOSE o \in overlaps : \A q \in overlaps : q <= o
  IN Min(overlap_score, Milli)

(* paper['published'] that datetime.fromisoformat rejects *)
Unparseable == 9999

(* np.exp(-days_old / 30.0), in thousandths, for the days of the model *)
exp_decay(days_old) ==
  CASE days_old = -31 -> 2810 [] days_old = -30 -> 2718
    [] days_old = -29 -> 2629 [] days_old = -28 -> 2543
    [] days_old = -1 -> 1034  [] days_old = 0 -> 1000
    [] days_old = 1 -> 967    [] days_old = 2 -> 936
    [] days_old = 3 -> 905    [] days_old = 29 -> 380
    [] days_old = 30 -> 368   [] days_old = 31 -> 356
    [] days_old = 32 -> 344   [] days_old = 33 -> 333

days_old_RoundUp(published, clock) ==
  (clock - published + HalfDaysPerDay - 1) \div HalfDaysPerDay

(* (datetime.now(published_date.tzinfo) - published_date).days: the whole  *)
(* days, rounded down                                                      *)
days_old_of(published, clock) == (clock - published) \div HalfDaysPerDay

(* except: return 0.5 *)
calculate_recency_score(paper, clock) ==
  IF paper.published = Unparseable THEN 500
  ELSE exp_decay(days_old_of(paper.published, clock))

(* gemini_analysis: None (or without 'relevance_score'), or with one *)
NoAnalysis == [present |-> FALSE, relevance_score |-> 0]

weights ==
  [keyword |-> 3000, category |-> 2000, author |-> 1000, citation |-> 2000,
   recency |-> 1000, ai_analysis |-> 1000]

(* if ai_score > 0.8 or ai_score < 0.2 *)
confident(gemini_analysis) ==
  /\ gemini_analysis.present
  /\ \/ gemini_analysis.relevance_score > 800
     \/ gemini_analysis.relevance_score < 200

(* weights['ai_analysis'] = 0.3; every other weight times 0.875 *)
reweighted ==
  [key \in DOMAIN weights |->
     IF key # "ai_analysis" THEN (weights[key] * 875) \div Milli ELSE 3000]

weights_used(gemini_analysis) ==
  IF confident(gemini_analysis) THEN reweighted ELSE weights

calculate_composite_score(paper, profile, roster, gemini_analysis, clock) ==
  LET keyword_sim == calculate_keyword_similarity(paper, profile)
      category_sim == calculate_category_similarity(paper, profile)
      author_sim == calculate_author_similarity(paper, profile)
      citation_potential == calculate_citation_potential(paper, profile)
      recency == calculate_recency_score(paper, clock)
      ai_score == IF gemini_analysis.present
                  THEN gemini_analysis.relevance_score ELSE 0
      w == weights_used(gemini_analysis)
      weighted == w.keyword * keyword_sim + w.category * category_sim
                  + w.author * author_sim + w.citation * citation_potential
                  + w.recency * recency + w.ai_analysis * ai_score
      friend_boost == get_friend_boost(paper, roster)
      composite_score == Min(weighted + friend_boost * WeightUnit, One)
  IN [composite_score |-> composite_score,
      keyword_similarity |-> keyword_sim,
      category_similarity |-> category_sim,
      author_similarity |-> author_sim,
      citation_potential |-> citation_potential,
      recency_score |-> recency,
      ai_analysis_score |-> ai_score,
      friend_boost |-> friend_boost,
      is_friend_paper |-> (friend_boost > 0),
      flagged |-> (composite_score >= 6 * (One \div 10))]

(* The papers, profiles, rosters and classifier outputs of the model *)
ScorePapers ==
  [text : SUBSET Keywords, categories : SUBSET Categories,
   published : {-60, 0, 60, Unparseable},
   authors : {NoAuthors, [kind |-> "list", names |-> <<Anthony_Lasenby>>]}]

ScoreProfiles ==
  [research_keywords : SUBSET Keywords,
   previous_papers : {<<>>, <<DictSample(Keywords)>>}]

Rosters == {<<>>, <<Lasenby_AN>>}

ClassifierOutputs ==
  {NoAnalysis} \cup
  [present : {TRUE}, relevance_score : {-500, 100, 500, 900, 1500}]

ScoreInputs ==
  [paper : ScorePapers, user_profile : ScoreProfiles, friends : Rosters,
   gemini_analysis : ClassifierOutputs]

NoInput ==
  [paper |-> [text |-> {}, categories |-> {}, published |-> Unparseable,
              authors |-> NoAuthors],
   user_profile |-> [research_keywords |-> {}, previous_papers |-> <<>>],
   friends |-> <<>>, gemini_analysis |-> NoAnalysis]

(* No friends manager at work: an empty roster and no call *)
NoCall == [op |-> "none", args |-> <<>>, matches |-> <<>>, value |-> 0]

FriendsIdle ==
  /\ friends = <<>>
  /\ document = NoInput.paper
  /\ fm_call = NoCall

(* Sort by score (highest first): list.sort is stable and reverse=True     *)
(* keeps the order of the input among equal scores.  scored is the list    *)
(* of the scored papers, in the order of the input.                        *)
RECURSIVE sort_by_score(_)
sort_by_score(scored) ==
  IF scored = <<>> THEN <<>>
  ELSE LET rest == sort_by_score(Tail(scored))
           above == Cardinality({n \in 1..Len(rest) :
                                   rest[n].score > Head(scored).score})
       IN SubSeq(rest, 1, above) \o <<Head(scored)>>
            \o SubSeq(rest, above + 1, Len(rest))

(* rank_papers(papers, user_profile): analysis is None for every paper *)
rank_papers(ps, profile, roster, clock) ==
  sort_by_score(
    [n \in 1..Len(ps) |->
       [id |-> ps[n].id, published |-> ps[n].published,
        score |-> calculate_composite_score(ps[n], profile, roster,
                                            NoAnalysis, clock).composite_score]])

(* database.py, get_flagged_papers: the rows of papers joined with their   *)
(* flagged analyses, ORDER BY relevance_score DESC, published_date DESC;   *)
(* SQL leaves open the order of rows that tie on both keys.  rows are the  *)
(* joined rows, in the order of their insertion.                           *)
flagged_rows(rows) ==
  {[id |-> rows[n].id, published |-> rows[n].published,
    score |-> rows[n].relevance_score] :
     n \in {m \in 1..Len(rows) : rows[m].flagged}}

get_flagged_papers(rows) ==
  {order \in [1..Cardinality(flagged_rows(rows)) -> flagged_rows(rows)] :
     /\ \A a, b \in DOMAIN order : a # b => order[a] # order[b]
     /\ \A a, b \in DOMAIN order :
          a < b => \/ order[a].score > order[b].score
                   \/ /\ order[a].score = order[b].score
                      /\ order[a].published >= order[b].published}

(* The papers of the ranked reads.  Every fourth paper shares no keyword   *)
(* with the profile and its stored analysis is not flagged; the others     *)
(* are alike but for their ids, and for the third of four, published half  *)
(* a day later.                                                            *)
RankIds == 1..MaxRanked

RankPaper(id) ==
  [id |-> id,
   text |-> IF id % 4 = 0 THEN {} ELSE {"inflation"},
   categories |-> {},
   published |-> IF id % 4 = 3 THEN 1 ELSE 0,
   authors |-> NoAuthors,
   relevance_score |-> IF id % 4 = 0 THEN 500 ELSE 900,
   flagged |-> (id % 4 # 0)]

RankProfile == [research_keywords |-> {"inflation"}, previous_papers |-> <<>>]

(* The lists of distinct papers *)
RankInputs ==
  {[n \in DOMAIN ids |-> RankPaper(ids[n])] :
     ids \in {x \in UNION {[1..m -> RankIds] : m \in 0..MaxRanked} :
                \A a, b \in DOMAIN x : a # b => x[a] # x[b]}}

NoRanking == [op |-> "none", input |-> <<>>, clock |-> 0, result |-> <<>>]

(* No relevance engine at work *)
EngineIdle ==
  /\ wall_clock = 0
  /\ score_input = NoInput
  /\ score_calls = <<>>
  /\ rank_call = NoRanking

(* ------------------------------- Init --------------------------------- *)
NoLogs ==
  /\ save_errors = {}
  /\ saved = {}
  /\ marked = {}
  /\ analysis_errors = {}
  /\ claims = [p \in PaperIds |-> 0]
  /\ dispatched = {}
  /\ dispatch_times = <<>>

ResetLogs ==
  /\ save_errors' = {}
  /\ saved' = {}
  /\ marked' = {}
  /\ analysis_errors' = {}
  /\ claims' = [p \in PaperIds |-> 0]
  /\ dispatched' = {}
  /\ dispatch_times' = <<>>

IdleProcess ==
  /\ pc = "idle"
  /\ pending = <<>> /\ batch_size = DefaultBatchSize /\ i = 0
  /\ results = <<>> /\ k = 0 /\ analyzed_count = 0 /\ ret = -1
  /\ queue = <<>>
  /\ wk = [w \in WorkerIds |-> IdleWorker]
  /\ request_lock = {} /\ last_request_time = LongAgo
  /\ rate_limiter = Permits

Init ==
  /\ papers = {}
  /\ processed = [p \in PaperIds |-> FALSE]
  /\ paper_analysis = [p \in PaperIds |-> NoRow]
  /\ user_profile = "none"
  /\ max_workers = NumWorkers
  /\ hpc = "idle"
  /\ IdleProcess
  /\ now = 0
  /\ NoLogs
  /\ ever_marked = {} /\ retry_due = {} /\ h_retry = {}
  /\ EngineIdle
  /\ FriendsIdle

(* --------------------- operations on the store ------------------------ *)
(* DradisDB.update_user_profile *)
UpdateUserProfile(kind) ==
  /\ hpc = "idle" /\ pc = "idle"
  /\ user_profile # kind
  /\ user_profile' = kind
  /\ UNCHANGED <<papers, processed, paper_analysis, hpc, run_vars,
                 rest_vars, pool_vars, gate_vars, log_vars>>

(* DradisDB.add_paper; ok = FALSE: sqlite raises, add_paper returns False *)
AddPaper(p, ok) ==
  /\ hpc = "idle" /\ pc = "idle"
  /\ IF ok
     THEN /\ papers' = papers \cup {p}
          /\ processed' = add_paper(processed, p)
     ELSE UNCHANGED <<papers, processed>>
  /\ UNCHANGED <<paper_analysis, user_profile, hpc, run_vars, rest_vars,
                 pool_vars, gate_vars, log_vars>>

(* ---------------------- DRADIS.run_fast_harvest ----------------------- *)
(* Up to the call of fast_analyze_pending_papers: the profile check and    *)
(* ArxivMonitor.daily_harvest over the papers feed, of which add_paper     *)
(* stores all but those of failed.                                         *)
RunFastHarvest(feed, failed) ==
  /\ hpc = "idle" /\ pc = "idle"
  /\ h_retry' = {p \in retry_due : ~processed[p]}
  /\ IF user_profile = "none"
     THEN /\ hpc' = "no_profile"
          /\ UNCHANGED <<papers, processed>>
     ELSE LET added == feed \ failed
              new_papers == Cardinality(added)
          IN /\ papers' = papers \cup added
             /\ processed' = [p \in PaperIds |->
                                IF p \in added THEN add_paper(processed, p)[p]
                                ELSE processed[p]]
             /\ hpc' = IF new_papers = 0 THEN "no_new" ELSE "analysis"
  /\ UNCHANGED <<paper_analysis, user_profile, run_vars, rest_vars,
                 pool_vars, gate_vars, save_errors, saved, marked,
                 analysis_errors, claims, dispatched, dispatch_times,
                 ever_marked, retry_due>>

(* run_fast_harvest returns (after the report, or early) *)
HarvestReturn ==
  /\ hpc \in {"no_profile", "no_new", "done", "raised"}
  /\ hpc' = "idle"
  /\ h_retry' = {}
  /\ UNCHANGED <<store_vars, run_vars, rest_vars, pool_vars, gate_vars,
                 save_errors, saved, marked, analysis_errors, claims,
                 dispatched, dispatch_times, ever_marked, retry_due>>

(* --------------- FastPaperAnalyzer.fast_analyze_pending_papers -------- *)
(* executor.submit for every paper of the batch at offset off *)
Submit(ps, off, bs) ==
  /\ i' = off
  /\ queue' = batch_of(ps, off, bs)
  /\ results' = <<>>
  /\ k' = 0
  /\ pc' = "collect"

(* The call: get_user_profile, get_unprocessed_papers and the submission   *)
(* of the first batch.  readOK = FALSE: a read of the store raises.        *)
(* run_fast_harvest calls it with the default batch_size; a direct call    *)
(* gives a batch_size of its own.                                          *)
StartAnalysis(bs, readOK) ==
  /\ pc = "idle"
  /\ \/ hpc = "idle" /\ bs # DefaultBatchSize
     \/ hpc = "analysis" /\ bs = DefaultBatchSize
  /\ hpc' = IF hpc = "analysis" THEN "analysing" ELSE hpc
  /\ batch_size' = bs
  /\ ResetLogs
  /\ analyzed_count' = 0
  /\ IF ~readOK
     THEN /\ pc' = "raised"
          /\ UNCHANGED <<pending, i, results, k, ret, queue>>
     ELSE IF user_profile = "none"
     THEN /\ pc' = "done" /\ ret' = ProfileMissingReturn
          /\ UNCHANGED <<pending, i, results, k, queue>>
     ELSE LET ps == get_unprocessed_papers(papers, processed)
          IN /\ pending' = ps
             /\ IF ps = <<>>
                THEN /\ pc' = "done" /\ ret' = 0
                     /\ UNCHANGED <<i, results, k, queue>>
                ELSE /\ Submit(ps, 0, bs)
                     /\ ret' = -1
  /\ UNCHANGED <<store_vars, rest_vars, wk, gate_vars, ever_marked,
                 retry_due, h_retry>>

(* ---------------- FastPaperAnalyzer.analyze_single_paper -------------- *)
take_Keep(q) == q

(* The executor's work queue hands each submitted item out once *)
take(q) == Tail(q)

(* A worker thread of the executor takes the next submitted paper.  Idle   *)
(* threads are interchangeable: the one of least index stands for them.    *)
(* The threads go on taking papers while the executor shuts down.          *)
Claim(w) ==
  /\ pc \in {"collect", "cancelling"}
  /\ wk[w].pc = "idle"
  /\ \A v \in WorkerIds : wk[v].pc = "idle" => w <= v
  /\ queue # <<>>
  /\ wk' = [wk EXCEPT ![w] = [pc |-> "start", paper |-> Head(queue),
                              wait_time |-> 0]]
  /\ queue' = take(queue)
  /\ claims' = [claims EXCEPT ![Head(queue)] = @ + 1]
  /\ UNCHANGED <<store_vars, hpc, run_vars, rest_vars, gate_vars,
                 save_errors, saved, marked, analysis_errors, dispatched,
                 dispatch_times, ever_marked, retry_due, h_retry>>

CanAcquire_Unguarded == TRUE

(* request_lock.acquire() succeeds: nobody holds the lock *)
CanAcquire == request_lock = {}

(* with self.request_lock: current_time = time.time(); wait_time = ... *)
GateEnter(w) ==
  /\ wk[w].pc = "start"
  /\ CanAcquire
  /\ request_lock' = request_lock \cup {w}
  /\ wk' = [wk EXCEPT ![w].pc = "locked",
                      ![w].wait_time = wait_time_of(now, last_request_time)]
  /\ UNCHANGED <<store_vars, hpc, run_vars, rest_vars, queue,
                 last_request_time, rate_limiter, now, log_vars>>

GateLeave_KeepLock(w) ==
  /\ wk[w].pc = "locked"
  /\ now' = IF wk[w].wait_time > 0 THEN now + wk[w].wait_time ELSE now
  /\ last_request_time' = now'
  /\ wk' = [wk EXCEPT ![w].pc = "gated", ![w].wait_time = 0]
  /\ UNCHANGED <<store_vars, hpc, run_vars, rest_vars, queue,
                 request_lock, rate_limiter, log_vars>>

(* if wait_time > 0: time.sleep(wait_time); self.last_request_time =       *)
(* time.time(); the lock is released                                       *)
GateLeave(w) ==
  /\ wk[w].pc = "locked"
  /\ now' = IF wk[w].wait_time > 0 THEN now + wk[w].wait_time ELSE now
  /\ last_request_time' = now'
  /\ request_lock' = request_lock \ {w}
  /\ wk' = [wk EXCEPT ![w].pc = "gated", ![w].wait_time = 0]
  /\ UNCHANGED <<store_vars, hpc, run_vars, rest_vars, queue,
                 rate_limiter, log_vars>>

(* The future of worker w completes with analysis; as_completed hands it   *)
(* to analyze_paper_batch, which appends it to results if it is truthy     *)
(* (every dict analyze_single_paper returns is).  Once an interrupt has    *)
(* ended the as_completed loop nothing collects the future.                *)
Complete(w, analysis) ==
  /\ results' = IF pc = "collect"
                THEN Append(results, <<wk[w].paper, analysis>>)
                ELSE results
  /\ wk' = [wk EXCEPT ![w] = IdleWorker]

(* quick_filter rejects the paper: no call is made *)
PreFilter(w) ==
  /\ wk[w].pc = "gated"
  /\ ~quick_filter(wk[w].paper, user_profile)
  /\ Complete(w, Prefiltered)
  /\ UNCHANGED <<store_vars, hpc, pc, pending, batch_size, i, k,
                 analyzed_count, ret, rest_vars, queue, gate_vars, log_vars>>

Dispatch_NoSemaphore(w) ==
  /\ wk[w].pc = "gated"
  /\ quick_filter(wk[w].paper, user_profile)
  /\ rate_limiter' = rate_limiter - 1
  /\ wk' = [wk EXCEPT ![w].pc = "calling"]
  /\ dispatched' = dispatched \cup {wk[w].paper}
  /\ dispatch_times' = Append(dispatch_times, now)
  /\ UNCHANGED <<store_vars, hpc, run_vars, rest_vars, queue,
                 request_lock, last_request_time, now, save_errors,
                 saved, marked, analysis_errors, claims, ever_marked,
                 retry_due, h_retry>>

(* with self.rate_limiter: response = self.model.generate_content(prompt) *)
Dispatch(w) ==
  /\ wk[w].pc = "gated"
  /\ quick_filter(wk[w].paper, user_profile)
  /\ rate_limiter > 0
  /\ rate_limiter' = rate_limiter - 1
  /\ wk' = [wk EXCEPT ![w].pc = "calling"]
  /\ dispatched' = dispatched \cup {wk[w].paper}
  /\ dispatch_times' = Append(dispatch_times, now)
  /\ UNCHANGED <<store_vars, hpc, run_vars, rest_vars, queue,
                 request_lock, last_request_time, now, save_errors,
                 saved, marked, analysis_errors, claims, ever_marked,
                 retry_due, h_retry>>

Respond_Uncaught(w, r) ==
  /\ wk[w].pc = "calling"
  /\ rate_limiter' = rate_limiter + 1
  /\ analysis_errors' = IF r = "raise"
                        THEN analysis_errors \cup {wk[w].paper}
                        ELSE analysis_errors
  /\ IF r = "raise"
     THEN /\ pc' = "raised"
          /\ wk' = [v \in WorkerIds |-> IdleWorker]
          /\ UNCHANGED results
     ELSE /\ Complete(w, analysis_of(r))
          /\ UNCHANGED pc
  /\ UNCHANGED <<store_vars, hpc, pending, batch_size, i, k,
                 analyzed_count, ret, rest_vars, queue, request_lock,
                 last_request_time, now, save_errors, saved, marked,
                 claims, dispatched, dispatch_times, ever_marked, retry_due,
                 h_retry>>

(* The call returns a JSON body, returns a malformed body, or raises; the  *)
(* semaphore is released and the except clause of analyze_single_paper     *)
(* turns an exception into the "Analysis failed" result.                   *)
Respond(w, r) ==
  /\ wk[w].pc = "calling"
  /\ rate_limiter' = rate_limiter + 1
  /\ Complete(w, analysis_of(r))
  /\ analysis_errors' = IF r = "raise"
                        THEN analysis_errors \cup {wk[w].paper}
                        ELSE analysis_errors
  /\ UNCHANGED <<store_vars, hpc, pc, pending, batch_size, i, k,
                 analyzed_count, ret, rest_vars, queue, request_lock,
                 last_request_time, now, save_errors, saved, marked,
                 claims, dispatched, dispatch_times, ever_marked, retry_due,
                 h_retry>>

(* ----------------- the persist loop of the coordinator ---------------- *)
EndBatch_Early ==
  /\ pc = "collect"
  /\ pc' = "save"
  /\ k' = 1
  /\ dispatch_times' = <<>>
  /\ UNCHANGED <<store_vars, hpc, pending, batch_size, i, results,
                 analyzed_count, ret, rest_vars, pool_vars, gate_vars,
                 save_errors, saved, marked, analysis_errors, claims,
                 dispatched, ever_marked, retry_due, h_retry>>

(* The executor has shut down: analyze_paper_batch returns results *)
EndBatch ==
  /\ pc = "collect"
  /\ queue = <<>>
  /\ \A w \in WorkerIds : wk[w].pc = "idle"
  /\ pc' = "save"
  /\ k' = 1
  /\ dispatch_times' = <<>>
  /\ UNCHANGED <<store_vars, hpc, pending, batch_size, i, results,
                 analyzed_count, ret, rest_vars, pool_vars, gate_vars,
                 save_errors, saved, marked, analysis_errors, claims,
                 dispatched, ever_marked, retry_due, h_retry>>

on_save_error_MarkAnyway(kk) == [pc |-> "mark", k |-> kk]

(* except Exception of the persist loop, reached from save_paper_analysis  *)
(* on result kk: the rest of the try body is skipped and the loop goes on  *)
(* with the next result                                                    *)
on_save_error(kk) == [pc |-> "save", k |-> kk + 1]

(* self.db.save_paper_analysis(paper_id, analysis); ok = FALSE: it raises  *)
(* and the except clause logs the failure                                  *)
PersistSave(ok) ==
  /\ pc = "save"
  /\ k <= Len(results)
  /\ LET p == results[k][1]
         analysis == results[k][2]
     IN IF ok
        THEN /\ paper_analysis' = save_paper_analysis(paper_analysis, p,
                                                      analysis)
             /\ saved' = saved \cup {p}
             /\ pc' = "mark"
             /\ UNCHANGED <<k, save_errors>>
        ELSE /\ save_errors' = save_errors \cup {p}
             /\ pc' = on_save_error(k).pc
             /\ k' = on_save_error(k).k
             /\ UNCHANGED <<paper_analysis, saved>>
  /\ UNCHANGED <<papers, processed, user_profile, hpc, pending, batch_size, i,
                 results, analyzed_count, ret, rest_vars, pool_vars,
                 gate_vars, marked, analysis_errors, claims, dispatched,
                 dispatch_times, ever_marked, retry_due, h_retry>>

PersistMark_Uncaught(ok) ==
  /\ pc = "mark"
  /\ LET p == results[k][1]
     IN IF ok
        THEN /\ processed' = mark_paper_processed(papers, processed, p)
             /\ analyzed_count' = analyzed_count + 1
             /\ marked' = marked \cup {p}
             /\ ever_marked' = ever_marked \cup {p}
             /\ pc' = "save"
             /\ UNCHANGED save_errors
        ELSE /\ save_errors' = save_errors \cup {p}
             /\ pc' = "raised"
             /\ UNCHANGED <<processed, analyzed_count, marked, ever_marked>>
  /\ k' = k + 1
  /\ UNCHANGED <<papers, paper_analysis, user_profile, hpc, pending,
                 batch_size, i, results, ret, rest_vars, pool_vars,
                 gate_vars, saved, analysis_errors, claims, dispatched,
                 dispatch_times, retry_due, h_retry>>

(* self.db.mark_paper_processed(paper_id); analyzed_count += 1; ok =       *)
(* FALSE: it raises and the except clause of the loop logs the failure     *)
PersistMark(ok) ==
  /\ pc = "mark"
  /\ LET p == results[k][1]
     IN IF ok
        THEN /\ processed' = mark_paper_processed(papers, processed, p)
             /\ analyzed_count' = analyzed_count + 1
             /\ marked' = marked \cup {p}
             /\ ever_marked' = ever_marked \cup {p}
             /\ UNCHANGED save_errors
        ELSE /\ save_errors' = save_errors \cup {p}
             /\ UNCHANGED <<processed, analyzed_count, marked, ever_marked>>
  /\ k' = k + 1
  /\ pc' = "save"
  /\ UNCHANGED <<papers, paper_analysis, user_profile, hpc, pending,
                 batch_size, i, results, ret, rest_vars, pool_vars,
                 gate_vars, saved, analysis_errors, claims, dispatched,
                 dispatch_times, retry_due, h_retry>>

NextBatch_CountResults ==
  /\ pc = "save"
  /\ k > Len(results)
  /\ IF i + batch_size < Len(pending)
     THEN /\ Submit(pending, i + batch_size, batch_size)
          /\ UNCHANGED ret
     ELSE /\ pc' = "done"
          /\ ret' = i + Len(results)
          /\ UNCHANGED <<i, queue, results, k>>
  /\ UNCHANGED <<store_vars, hpc, pending, batch_size, analyzed_count,
                 rest_vars, wk, gate_vars, log_vars>>

(* The results of the batch are persisted: the next batch, or return *)
NextBatch ==
  /\ pc = "save"
  /\ k > Len(results)
  /\ IF i + batch_size < Len(pending)
     THEN /\ Submit(pending, i + batch_size, batch_size)
          /\ UNCHANGED ret
     ELSE /\ pc' = "done"
          /\ ret' = analyzed_count
          /\ UNCHANGED <<i, queue, results, k>>
  /\ UNCHANGED <<store_vars, hpc, pending, batch_size, analyzed_count,
                 rest_vars, wk, gate_vars, log_vars>>

(* fast_analyze_pending_papers has returned, or raised: back in the caller *)
Return ==
  /\ pc \in {"done", "raised"}
  /\ pc' = "idle"
  /\ hpc' = IF hpc = "analysing"
            THEN (IF pc = "raised" THEN "raised" ELSE "done")
            ELSE hpc
  /\ pending' = <<>> /\ i' = 0 /\ results' = <<>> /\ k' = 0
  /\ analyzed_count' = 0 /\ ret' = -1
  /\ batch_size' = DefaultBatchSize
  /\ retry_due' = {p \in retry_due \cup save_errors : ~processed[p]}
  /\ ResetLogs
  /\ now' = 0
  /\ last_request_time' = Max(last_request_time - now, LongAgo)
  /\ UNCHANGED <<store_vars, rest_vars, pool_vars, request_lock,
                 rate_limiter, ever_marked, h_retry>>

(* The process dies during a run and is started again: the store stays,    *)
(* the analyzer is constructed anew.                                       *)
Crash ==
  /\ pc \notin {"idle", "done", "raised"}
  /\ hpc' = "idle" /\ pc' = "idle"
  /\ pending' = <<>> /\ batch_size' = DefaultBatchSize /\ i' = 0
  /\ results' = <<>> /\ k' = 0 /\ analyzed_count' = 0 /\ ret' = -1
  /\ queue' = <<>>
  /\ wk' = [w \in WorkerIds |-> IdleWorker]
  /\ request_lock' = {} /\ last_request_time' = LongAgo
  /\ rate_limiter' = Permits
  /\ now' = 0
  /\ retry_due' = {p \in retry_due \cup save_errors : ~processed[p]}
  /\ ResetLogs
  /\ h_retry' = {}
  /\ UNCHANGED <<store_vars, rest_vars, ever_marked>>

Next ==
  \/ \E kind \in ProfileKinds : UpdateUserProfile(kind)
  \/ \E p \in SmallIds, ok \in BOOLEAN : AddPaper(p, ok)
  \/ \E feed \in SUBSET SmallIds : \E failed \in SUBSET feed :
       RunFastHarvest(feed, failed)
  \/ HarvestReturn
  \/ \E bs \in {SmallBatch, DefaultBatchSize}, readOK \in BOOLEAN :
       StartAnalysis(bs, readOK)
  \/ \E w \in WorkerIds : Claim(w)
  \/ \E w \in WorkerIds : GateEnter(w)
  \/ \E w \in WorkerIds : GateLeave(w)
  \/ \E w \in WorkerIds : PreFilter(w)
  \/ \E w \in WorkerIds : Dispatch(w)
  \/ \E w \in WorkerIds, r \in Responses : Respond(w, r)
  \/ EndBatch
  \/ \E ok \in BOOLEAN : PersistSave(ok)
  \/ \E ok \in BOOLEAN : PersistMark(ok)
  \/ NextBatch
  \/ Return
  \/ Crash

Spec == Init /\ [][Next]_vars

(* run_fast_harvest has stored RatePapers papers and is about to call the  *)
(* analysis, with one worker and a profile without research_keywords (no   *)
(* paper is pre-filtered); no call and no write fails.                     *)
InitRate ==
  /\ papers = PaperIds
  /\ processed = [p \in PaperIds |-> FALSE]
  /\ paper_analysis = [p \in PaperIds |-> NoRow]
  /\ user_profile = "nokw"
  /\ max_workers = 1
  /\ hpc = "analysis"
  /\ IdleProcess
  /\ now = 0
  /\ NoLogs
  /\ ever_marked = {} /\ retry_due = {} /\ h_retry = {}
  /\ EngineIdle
  /\ FriendsIdle

NextRate ==
  \/ StartAnalysis(DefaultBatchSize, TRUE)
  \/ \E w \in WorkerIds : Claim(w)
  \/ \E w \in WorkerIds : GateEnter(w)
  \/ \E w \in WorkerIds : GateLeave(w)
  \/ \E w \in WorkerIds : Dispatch(w)
  \/ \E w \in WorkerIds : Respond(w, "json")
  \/ EndBatch
  \/ PersistSave(TRUE)
  \/ PersistMark(TRUE)
  \/ NextBatch
  \/ Return
  \/ HarvestReturn

SpecRate == InitRate /\ [][NextRate]_vars

(* ------------- runs over a store that holds pending papers ----------- *)
(* The papers of SmallIds are stored and unprocessed and a profile with    *)
(* research_keywords is present: fast_analyze_pending_papers is called     *)
(* directly, with NumWorkers workers.                                      *)
InitRun ==
  /\ papers = SmallIds
  /\ processed = [p \in PaperIds |-> FALSE]
  /\ paper_analysis = [p \in PaperIds |-> NoRow]
  /\ user_profile = "kw"
  /\ max_workers = NumWorkers
  /\ hpc = "idle"
  /\ IdleProcess
  /\ now = 0
  /\ NoLogs
  /\ ever_marked = {} /\ retry_due = {} /\ h_retry = {}
  /\ EngineIdle
  /\ FriendsIdle

(* The steps of worker thread w *)
WorkerStep(w) ==
  \/ Claim(w)
  \/ GateEnter(w)
  \/ GateLeave(w)
  \/ PreFilter(w)
  \/ Dispatch(w)
  \/ \E r \in Responses : Respond(w, r)

(* The steps of the main thread, in fast_analyze_pending_papers *)
CoordinatorStep ==
  \/ StartAnalysis(SmallBatch, TRUE)
  \/ EndBatch
  \/ \E ok \in BOOLEAN : PersistSave(ok)
  \/ \E ok \in BOOLEAN : PersistMark(ok)
  \/ NextBatch
  \/ Return

(* self.model.generate_content(prompt) is called with no timeout and       *)
(* future.result() is awaited with none: a call the service never answers  *)
(* never returns.  The worker stays inside with self.rate_limiter.         *)
Hang(w) ==
  /\ wk[w].pc = "calling"
  /\ wk' = [wk EXCEPT ![w].pc = "hung"]
  /\ UNCHANGED <<store_vars, hpc, run_vars, rest_vars, queue, gate_vars,
                 log_vars>>

NextHang ==
  \/ StartAnalysis(SmallBatch, TRUE)
  \/ \E w \in WorkerIds : Claim(w)
  \/ \E w \in WorkerIds : GateEnter(w)
  \/ \E w \in WorkerIds : GateLeave(w)
  \/ \E w \in WorkerIds : PreFilter(w)
  \/ \E w \in WorkerIds : Dispatch(w)
  \/ \E w \in WorkerIds, r \in Responses : Respond(w, r)
  \/ \E w \in WorkerIds : Hang(w)
  \/ EndBatch
  \/ \E ok \in BOOLEAN : PersistSave(ok)
  \/ \E ok \in BOOLEAN : PersistMark(ok)
  \/ NextBatch
  \/ Return

(* Every thread that can take a step eventually takes one; whether the     *)
(* service answers is up to the service.                                   *)
SpecHang ==
  /\ InitRun
  /\ [][NextHang]_vars
  /\ \A w \in 1..NumWorkers : WF_vars(WorkerStep(w))
  /\ WF_vars(CoordinatorStep)

(* --------------------- runs that a crash may end ---------------------- *)
(* No call of the store fails and no paper is added again: what a new run  *)
(* finds unprocessed is what the runs before it left.                      *)
NextCrash ==
  \/ StartAnalysis(SmallBatch, TRUE)
  \/ \E w \in WorkerIds : Claim(w)
  \/ \E w \in WorkerIds : GateEnter(w)
  \/ \E w \in WorkerIds : GateLeave(w)
  \/ \E w \in WorkerIds : PreFilter(w)
  \/ \E w \in WorkerIds : Dispatch(w)
  \/ \E w \in WorkerIds, r \in Responses : Respond(w, r)
  \/ EndBatch
  \/ PersistSave(TRUE)
  \/ PersistMark(TRUE)
  \/ NextBatch
  \/ Return
  \/ Crash

SpecCrash == InitRun /\ [][NextCrash]_vars

(* ------------------ one harvest run, every kind of body --------------- *)
(* run_fast_harvest has stored the papers of SmallIds and is about to      *)
(* call the analysis: one batch holds them all.  The profile has           *)
(* research_keywords or has none.                                          *)
InitBatch ==
  /\ papers = SmallIds
  /\ processed = [p \in PaperIds |-> FALSE]
  /\ paper_analysis = [p \in PaperIds |-> NoRow]
  /\ user_profile \in {"kw", "nokw"}
  /\ max_workers = NumWorkers
  /\ hpc = "analysis"
  /\ IdleProcess
  /\ now = 0
  /\ NoLogs
  /\ ever_marked = {} /\ retry_due = {} /\ h_retry = {}
  /\ EngineIdle
  /\ FriendsIdle

NextBatchRun ==
  \/ StartAnalysis(DefaultBatchSize, TRUE)
  \/ \E w \in WorkerIds : Claim(w)
  \/ \E w \in WorkerIds : GateEnter(w)
  \/ \E w \in WorkerIds : GateLeave(w)
  \/ \E w \in WorkerIds : PreFilter(w)
  \/ \E w \in WorkerIds : Dispatch(w)
  \/ \E w \in WorkerIds, r \in Bodies : Respond(w, r)
  \/ EndBatch
  \/ \E ok \in BOOLEAN : PersistSave(ok)
  \/ \E ok \in BOOLEAN : PersistMark(ok)
  \/ NextBatch
  \/ Return
  \/ HarvestReturn

SpecBatch == InitBatch /\ [][NextBatchRun]_vars

(* ----------------------- KeyboardInterrupt --------------------------- *)
(* Ctrl-C: KeyboardInterrupt is raised in the main thread.  It is not an   *)
(* Exception, so no except clause of the analyzer catches it.  Raised in   *)
(* the as_completed loop it first runs the exit of "with                   *)
(* ThreadPoolExecutor", shutdown(wait=True); raised in the persist loop    *)
(* it leaves fast_analyze_pending_papers at once.                          *)
Cancel ==
  /\ pc \in {"collect", "save", "mark"}
  /\ pc' = IF pc = "collect" THEN "cancelling" ELSE "cancelled"
  /\ UNCHANGED <<store_vars, hpc, pending, batch_size, i, results, k,
                 analyzed_count, ret, rest_vars, pool_vars, gate_vars,
                 log_vars>>

(* shutdown(wait=True) returns when the threads have run every submitted   *)
(* paper; the interrupt then leaves fast_analyze_pending_papers.           *)
Shutdown ==
  /\ pc = "cancelling"
  /\ queue = <<>>
  /\ \A w \in WorkerIds : wk[w].pc = "idle"
  /\ pc' = "cancelled"
  /\ UNCHANGED <<store_vars, hpc, pending, batch_size, i, results, k,
                 analyzed_count, ret, rest_vars, pool_vars, gate_vars,
                 log_vars>>

(* main: except KeyboardInterrupt: print(...); sys.exit(1).  The process   *)
(* ends; the store stays and the next start constructs the analyzer anew.  *)
Exit ==
  /\ pc = "cancelled"
  /\ hpc' = "idle" /\ pc' = "idle"
  /\ pending' = <<>> /\ batch_size' = DefaultBatchSize /\ i' = 0
  /\ results' = <<>> /\ k' = 0 /\ analyzed_count' = 0 /\ ret' = -1
  /\ queue' = <<>>
  /\ wk' = [w \in WorkerIds |-> IdleWorker]
  /\ request_lock' = {} /\ last_request_time' = LongAgo
  /\ rate_limiter' = Permits
  /\ now' = 0
  /\ retry_due' = {p \in retry_due \cup save_errors : ~processed[p]}
  /\ ResetLogs
  /\ h_retry' = {}
  /\ UNCHANGED <<store_vars, rest_vars, ever_marked>>

(* Runs that an interrupt may end; no call of the store fails *)
NextCancel ==
  \/ StartAnalysis(SmallBatch, TRUE)
  \/ \E w \in WorkerIds : Claim(w)
  \/ \E w \in WorkerIds : GateEnter(w)
  \/ \E w \in WorkerIds : GateLeave(w)
  \/ \E w \in WorkerIds : PreFilter(w)
  \/ \E w \in WorkerIds : Dispatch(w)
  \/ \E w \in WorkerIds, r \in Responses : Respond(w, r)
  \/ EndBatch
  \/ PersistSave(TRUE)
  \/ PersistMark(TRUE)
  \/ NextBatch
  \/ Return
  \/ Cancel
  \/ Shutdown
  \/ Exit

SpecCancel == InitRun /\ [][NextCancel]_vars

(* ----------------- RelevanceEngine.calculate_composite_score --------- *)
(* The analyzer is idle; the engine is given a paper, a profile, a roster  *)
(* and a classifier output.                                                *)
InitScore ==
  /\ papers = {}
  /\ processed = [p \in PaperIds |-> FALSE]
  /\ paper_analysis = [p \in PaperIds |-> NoRow]
  /\ user_profile = "none"
  /\ max_workers = NumWorkers
  /\ hpc = "idle"
  /\ IdleProcess
  /\ now = 0
  /\ NoLogs
  /\ ever_marked = {} /\ retry_due = {} /\ h_retry = {}
  /\ wall_clock = 0
  /\ score_input \in ScoreInputs
  /\ score_calls = <<>>
  /\ rank_call = NoRanking
  /\ FriendsIdle

(* A call of calculate_composite_score with the arguments score_input *)
Score ==
  /\ Len(score_calls) < MaxCalls
  /\ score_calls' =
       Append(score_calls,
              [clock |-> wall_clock,
               outcome |-> calculate_composite_score(
                             score_input.paper, score_input.user_profile,
                             score_input.friends,
                             score_input.gemini_analysis, wall_clock)])
  /\ UNCHANGED <<analyzer_vars, friend_vars, wall_clock, score_input,
                 rank_call>>

(* Half a day passes *)
Tick ==
  /\ wall_clock < MaxClock
  /\ wall_clock' = wall_clock + 1
  /\ UNCHANGED <<analyzer_vars, friend_vars, score_input, score_calls,
                 rank_call>>

NextScore == Score \/ Tick

SpecScore == InitScore /\ [][NextScore]_vars

(* ------------------- profiles with many prior papers ------------------ *)
SamplePool ==
  {DictSample({"axion"}), DictSample(Keywords), TitleSample({"axion"})}

CitationInputs ==
  {[paper |-> [text |-> text, categories |-> {}, published |-> 0,
               authors |-> NoAuthors],
    user_profile |-> [research_keywords |-> {}, previous_papers |-> samples],
    friends |-> <<>>, gemini_analysis |-> NoAnalysis] :
     text \in {{"axion"}, {"inflation"}},
     samples \in UNION {[1..m -> SamplePool] : m \in 0..MaxSamples}}

InitCitation ==
  /\ papers = {}
  /\ processed = [p \in PaperIds |-> FALSE]
  /\ paper_analysis = [p \in PaperIds |-> NoRow]
  /\ user_profile = "none"
  /\ max_workers = NumWorkers
  /\ hpc = "idle"
  /\ IdleProcess
  /\ now = 0
  /\ NoLogs
  /\ ever_marked = {} /\ retry_due = {} /\ h_retry = {}
  /\ wall_clock = 0
  /\ score_input \in CitationInputs
  /\ score_calls = <<>>
  /\ rank_call = NoRanking
  /\ FriendsIdle

SpecCitation == InitCitation /\ [][Score]_vars

(* --------------------------- ranked reads ----------------------------- *)
(* A caller holds a list of distinct papers, each stored with its analysis *)
(* in the order of the list.                                               *)
InitRank ==
  /\ papers = {}
  /\ processed = [p \in PaperIds |-> FALSE]
  /\ paper_analysis = [p \in PaperIds |-> NoRow]
  /\ user_profile = "none"
  /\ max_workers = NumWorkers
  /\ hpc = "idle"
  /\ IdleProcess
  /\ now = 0
  /\ NoLogs
  /\ ever_marked = {} /\ retry_due = {} /\ h_retry = {}
  /\ wall_clock = 0
  /\ score_input = NoInput
  /\ score_calls = <<>>
  /\ \E input \in RankInputs : rank_call = [NoRanking EXCEPT !.input = input]
  /\ FriendsIdle

(* rank_papers(papers, user_profile) on the list *)
RankPapers ==
  /\ rank_call' = [rank_call EXCEPT
                     !.op = "rank_papers",
                     !.clock = wall_clock,
                     !.result = rank_papers(rank_call.input, RankProfile,
                                            <<>>, wall_clock)]
  /\ UNCHANGED <<analyzer_vars, friend_vars, wall_clock, score_input,
                 score_calls>>

(* get_flagged_papers(limit), no fewer than limit rows being flagged *)
FlaggedRead ==
  /\ \E order \in get_flagged_papers(rank_call.input) :
       rank_call' = [rank_call EXCEPT !.op = "get_flagged_papers",
                                      !.clock = wall_clock,
                                      !.result = order]
  /\ UNCHANGED <<analyzer_vars, friend_vars, wall_clock, score_input,
                 score_calls>>

NextRank == RankPapers \/ FlaggedRead \/ Tick

SpecRank == InitRank /\ [][NextRank]_vars

(* -------------------------- FriendsManager ---------------------------- *)
(* name_similarity(name1, name2), on its own *)
NameSimilarity(name1, name2) ==
  /\ fm_call' = [op |-> "name_similarity", args |-> <<name1, name2>>,
                 matches |-> <<>>, value |-> Similarity[name1, name2]]
  /\ UNCHANGED <<analyzer_vars, score_vars, friends, document>>

NextNames == \E name1 \in Names, name2 \in Names : NameSimilarity(name1, name2)

SpecNames == Init /\ [][NextNames]_vars

(* The authors and the roster entries of the detection runs *)
AuthorPool == {John_Smith, Anthony_Lasenby, Anthony_N_Lasenby}

FriendPool == {Lasenby_AN, Smith_M, NoName}

SeqsUpTo(S, n) == UNION {[1..m -> S] : m \in 0..n}

AuthorLists ==
  {[kind |-> kind, names |-> names] :
     kind \in {"list", "json"}, names \in SeqsUpTo(AuthorPool, MaxAuthors)}
  \cup {[kind |-> "text", names |-> <<name>>] : name \in AuthorPool}

Documents ==
  {[text |-> {}, categories |-> {}, published |-> 0, authors |-> authors] :
     authors \in AuthorLists}

(* A process is started with a roster loaded from the configuration and    *)
(* holds a document; the store holds the papers of SmallIds, unprocessed,  *)
(* and a profile.  The process runs one command: the analysis (with one    *)
(* worker), or calls of the friends manager and the relevance engine.      *)
InitFriends ==
  /\ papers = SmallIds
  /\ processed = [p \in PaperIds |-> FALSE]
  /\ paper_analysis = [p \in PaperIds |-> NoRow]
  /\ user_profile = "kw"
  /\ max_workers = 1
  /\ hpc = "analysis"
  /\ IdleProcess
  /\ now = 0
  /\ NoLogs
  /\ ever_marked = {} /\ retry_due = {} /\ h_retry = {}
  /\ EngineIdle
  /\ friends \in SeqsUpTo(FriendPool, MaxFriends)
  /\ document \in Documents
  /\ fm_call = NoCall

(* No analysis has been started in the process *)
ManagementCommand == pc = "idle" /\ hpc = "analysis"

DetectFriendAuthors_ParseInPlace ==
  /\ ManagementCommand
  /\ fm_call' = [op |-> "detect_friend_authors",
                 args |-> <<document, friends>>,
                 matches |-> detect_friend_authors(document, friends),
                 value |-> 0]
  /\ document' = [document EXCEPT !.authors.kind = "list"]
  /\ UNCHANGED <<analyzer_vars, score_vars, friends>>

(* detect_friend_authors(paper): paper_authors is a local name, the parsed *)
(* list is not written back to the paper                                   *)
DetectFriendAuthors ==
  /\ ManagementCommand
  /\ fm_call' = [op |-> "detect_friend_authors",
                 args |-> <<document, friends>>,
                 matches |-> detect_friend_authors(document, friends),
                 value |-> 0]
  /\ UNCHANGED <<analyzer_vars, score_vars, friends, document>>

(* get_friend_boost(paper) *)
GetFriendBoost ==
  /\ ManagementCommand
  /\ fm_call' = [op |-> "get_friend_boost", args |-> <<document, friends>>,
                 matches |-> <<>>,
                 value |-> get_friend_boost(document, friends)]
  /\ UNCHANGED <<analyzer_vars, score_vars, friends, document>>

(* calculate_composite_score(paper, user_profile) of an engine whose       *)
(* friends manager holds the roster                                        *)
ScoreDocument ==
  /\ ManagementCommand
  /\ fm_call' = [op |-> "calculate_composite_score",
                 args |-> <<document, friends>>, matches |-> <<>>,
                 value |-> calculate_composite_score(
                             document, score_input.user_profile, friends,
                             NoAnalysis, wall_clock).composite_score]
  /\ UNCHANGED <<analyzer_vars, score_vars, friends, document>>

(* add_friend(name): the entry is appended; save_friends reads             *)
(* self.friends_file, which no code sets, and its except clause prints the *)
(* error, so only the roster in memory changes                             *)
AddFriend(name) ==
  /\ ManagementCommand
  /\ Len(friends) < MaxFriends
  /\ friends' = Append(friends, name)
  /\ fm_call' = [op |-> "add_friend", args |-> <<name>>, matches |-> <<>>,
                 value |-> 0]
  /\ UNCHANGED <<analyzer_vars, score_vars, document>>

(* remove_friend(name): value is 1 for True, 0 for False *)
RemoveFriend(name) ==
  /\ ManagementCommand
  /\ LET n == remove_index(friends, name)
     IN /\ friends' = IF n = 0 THEN friends ELSE pop(friends, n)
        /\ fm_call' = [op |-> "remove_friend", args |-> <<name>>,
                       matches |-> <<>>, value |-> IF n = 0 THEN 0 ELSE 1]
  /\ UNCHANGED <<analyzer_vars, score_vars, document>>

NextFriends ==
  \/ DetectFriendAuthors
  \/ GetFriendBoost
  \/ ScoreDocument
  \/ \E name \in FriendPool : AddFriend(name)
  \/ \E name \in AuthorPool \cup FriendPool : RemoveFriend(name)
  \/ fm_call = NoCall /\ StartAnalysis(DefaultBatchSize, TRUE)
  \/ \E w \in WorkerIds : Claim(w)
  \/ \E w \in WorkerIds : GateEnter(w)
  \/ \E w \in WorkerIds : GateLeave(w)
  \/ \E w \in WorkerIds : PreFilter(w)
  \/ \E w \in WorkerIds : Dispatch(w)
  \/ \E w \in WorkerIds : Respond(w, "json")
  \/ EndBatch
  \/ PersistSave(TRUE)
  \/ PersistMark(TRUE)
  \/ NextBatch
  \/ Return
  \/ HarvestReturn

SpecFriends == InitFriends /\ [][NextFriends]_vars

(* ------------- more worker threads than semaphore permits ------------- *)
(* run_fast_harvest has stored RatePapers papers and is about to call the  *)
(* analysis with Permits + SpareWorkers worker threads and a profile       *)
(* without research_keywords.                                              *)
InitPermits ==
  /\ papers = PaperIds
  /\ processed = [p \in PaperIds |-> FALSE]
  /\ paper_analysis = [p \in PaperIds |-> NoRow]
  /\ user_profile = "nokw"
  /\ max_workers = Permits + SpareWorkers
  /\ hpc = "analysis"
  /\ IdleProcess
  /\ now = 0
  /\ NoLogs
  /\ ever_marked = {} /\ retry_due = {} /\ h_retry = {}
  /\ EngineIdle
  /\ FriendsIdle

(* Permits calls have been placed *)
SemaphoreFull == Cardinality(dispatched) >= Permits

(* The scenario: the first Permits threads place their calls one after     *)
(* another; from then on every thread runs freely.                         *)
InTurn(w) ==
  SemaphoreFull \/ \A v \in 1..(w - 1) : wk[v].pc = "calling"

(* The classifier answers no call before Permits calls are placed, then    *)
(* answers the calls in the order of the papers' publication, and raises   *)
(* on at most MaxRaises of them.                                           *)
Answers(w, r) ==
  /\ SemaphoreFull
  /\ \A v \in WorkerIds : wk[v].pc = "calling" => wk[v].paper <= wk[w].paper
  /\ r = "raise" => Cardinality(analysis_errors) < MaxRaises

NextPermits ==
  \/ StartAnalysis(DefaultBatchSize, TRUE)
  \/ \E w \in WorkerIds : InTurn(w) /\ Claim(w)
  \/ \E w \in WorkerIds : InTurn(w) /\ GateEnter(w)
  \/ \E w \in WorkerIds : InTurn(w) /\ GateLeave(w)
  \/ \E w \in WorkerIds : InTurn(w) /\ Dispatch(w)
  \/ \E w \in WorkerIds, r \in {"json", "raise"} :
       Answers(w, r) /\ Respond(w, r)
  \/ EndBatch
  \/ PersistSave(TRUE)
  \/ PersistMark(TRUE)
  \/ NextBatch
  \/ Return
  \/ HarvestReturn

SpecPermits == InitPermits /\ [][NextPermits]_vars

TypeOK ==
  /\ papers \subseteq PaperIds
  /\ pc \in {"idle", "collect", "save", "mark", "done", "raised",
            "cancelling", "cancelled"}
  /\ hpc \in {"idle", "no_profile", "no_new", "analysis", "analysing",
              "done", "raised"}
  /\ rate_limiter \in 0..Permits
  /\ request_lock \subseteq WorkerIds


(* ============================== claims ================================ *)
Batch == batch_of(pending, i, batch_size)

ResultIds == {results[j][1] : j \in 1..Len(results)}

SaveFailed == save_errors \ saved

(* C1: a paper that a run has marked processed is never sent to the        *)
(* classifier by a later run, whatever add_paper calls come in between.    *)
C1_NeverResubmitted ==
  \A w \in WorkerIds :
    wk[w].pc = "calling" => wk[w].paper \notin ever_marked

(* C2: when fast_analyze_pending_papers returns, every paper that was      *)
(* pending at its start has exactly one terminal outcome: a persisted      *)
(* analysis with the paper marked processed, or a recorded failure with    *)
(* the paper left unprocessed.                                             *)
C2_ExactlyOneOutcome ==
  pc = "done" =>
    \A p \in Range(pending) :
      (p \in saved /\ processed[p] /\ p \notin save_errors)
        # (p \in save_errors /\ ~processed[p] /\ p \notin saved)

(* C3: in every state of the store a paper is marked processed if and      *)
(* only if its analysis has been written.                                  *)
C3_ProcessedIffWritten ==
  \A p \in papers : processed[p] <=> paper_analysis[p] # NoRow

(* C4: a paper whose save_paper_analysis raised is not marked processed    *)
(* in that run and is not counted in analyzed_count, and the loop still    *)
(* gives every other result of the run its turn.                           *)
C4_FailedSaveSkipsMark ==
  /\ \A p \in SaveFailed : p \notin marked /\ ~processed[p]
  /\ analyzed_count = Cardinality(marked)
  /\ pc = "done" => Range(pending) \subseteq saved \cup save_errors

C4_Witness ==
  /\ pc = "done"
  /\ \E a, b \in 1..Len(pending) :
       /\ a < b
       /\ pending[a] \in SaveFailed
       /\ pending[b] \in marked
  /\ ret = Cardinality(marked)

(* C5: when a fast harvest started with a profile present ends, every      *)
(* paper that a persistence failure of an earlier run left unprocessed     *)
(* has been handed to a worker for analysis in it.                         *)
C5_RetriedNextRun ==
  (hpc = "no_new" \/ (hpc = "analysing" /\ pc = "done")) =>
    \A p \in h_retry : claims[p] > 0

(* C6: no window of 5 s holds more than 15 generate_content calls *)
C6_WindowQuota ==
  \A a \in 1..Len(dispatch_times) :
    Cardinality({b \in 1..Len(dispatch_times) :
                   /\ dispatch_times[b] >= dispatch_times[a]
                   /\ dispatch_times[b] < dispatch_times[a] + WindowTicks})
      <= Permits

(* C7: two consecutive generate_content calls are at least 5 s / 15 apart *)
C7_QuotaSpacing ==
  \A a \in 1..(Len(dispatch_times) - 1) :
    dispatch_times[a + 1] - dispatch_times[a] >= QuotaSpacing

(* C8: at most one worker is inside request_lock, the worker that reads    *)
(* and writes last_request_time is inside it, and a worker whose           *)
(* generate_content call is in flight is not.                              *)
C8_LockDiscipline ==
  /\ Cardinality(request_lock) <= 1
  /\ \A w \in WorkerIds : wk[w].pc = "locked" => w \in request_lock
  /\ \A w \in WorkerIds :
       wk[w].pc \in {"idle", "start", "gated", "calling"}
         => w \notin request_lock

C8_Witness ==
  \E v, w \in WorkerIds :
    /\ wk[v].pc = "calling"
    /\ wk[w].pc = "locked"
    /\ request_lock = {w}

(* C9: no paper is taken by two workers, and when analyze_paper_batch      *)
(* returns, its results hold every paper of the batch exactly once.        *)
C9_ClaimedOnce ==
  /\ \A p \in PaperIds : claims[p] <= 1
  /\ pc \in {"save", "mark"} =>
       /\ Len(results) = Len(Batch)
       /\ ResultIds = Range(Batch)
       /\ \A p \in Range(Batch) : claims[p] = 1

C9_Witness ==
  /\ pc = "save"
  /\ Len(results) >= 2
  /\ results[1][1] = Batch[2]
  /\ results[2][1] = Batch[1]

(* C10: a classifier call that raises does not abort the run: the failing  *)
(* paper gets its result, and every paper of the run is still persisted    *)
(* (or its persistence failure recorded), all of them when no write fails. *)
C10_FailureIsolated ==
  analysis_errors # {} =>
    /\ pc \in {"collect", "save", "mark", "done"}
    /\ pc \in {"save", "mark"} => ResultIds = Range(Batch)
    /\ pc = "done" => Range(pending) \subseteq saved \cup save_errors
    /\ (pc = "done" /\ save_errors = {}) =>
         \A p \in Range(pending) : processed[p] /\ paper_analysis[p] # NoRow

C10_Witness ==
  /\ pc = "done"
  /\ Len(pending) >= 2
  /\ pending[1] \in analysis_errors
  /\ pending[2] \notin analysis_errors
  /\ processed[pending[2]]
  /\ paper_analysis[pending[2]] # NoRow
  /\ paper_analysis[pending[1]] # NoRow
  /\ batch_size = DefaultBatchSize

(* C11: with no user profile fast_analyze_pending_papers does no batch     *)
(* work (no paper taken, no classifier call, no write), and its outcome    *)
(* is one that no run with a profile present ends with.                    *)
C11_AbortDistinct ==
  /\ (pc = "done" /\ user_profile = "none") =>
       /\ ret = ProfileMissingReturn
       /\ pending = <<>> /\ dispatched = {} /\ saved = {} /\ marked = {}
       /\ \A p \in PaperIds : claims[p] = 0
  /\ (pc = "done" /\ user_profile # "none") => ret # ProfileMissingReturn

C13_HangTerminates ==
  (\E w \in WorkerIds : wk[w].pc = "hung") ~> (pc = "done")

(* C14: once an interrupt has arrived no further paper is taken by a       *)
(* worker, and the interrupted run ends with a count of exactly the        *)
(* papers it completed and with every pending paper either saved and       *)
(* marked processed or neither.                                            *)
C14_CancelClean ==
  /\ [][pc = "cancelling" => claims' = claims]_vars
  /\ [](pc = "cancelled" =>
         /\ ret = Cardinality(marked)
         /\ \A p \in Range(pending) :
              paper_analysis[p] # NoRow <=> processed[p])

(* The results of the batch that come from _parse_fallback *)
Fallbacks ==
  {j \in 1..Len(results) :
     results[j][2].reasoning = "Parsed from malformed response"}

(* A run of one batch has returned, the classifier gave a body that is no  *)
(* JSON for exactly one paper and answered every other call, and no write  *)
(* failed.                                                                 *)
OneMalformed ==
  /\ pc = "done"
  /\ Len(pending) <= batch_size
  /\ Cardinality(Fallbacks) = 1
  /\ analysis_errors = {}
  /\ save_errors = {}

C16_FailedNotCounted ==
  pc = "done" =>
    ret = Len(pending) - Cardinality(analysis_errors \cup save_errors)

(* C17: across a crash and a restart no result that a worker has handed    *)
(* back is lost (it is in the store after the crash), and no paper whose   *)
(* result is in the store is sent to the classifier again.                 *)
C17_AtMostOnceAcrossCrash ==
  /\ [][(pc \in {"collect", "save", "mark"} /\ pc' = "idle") =>
          \A j \in 1..Len(results) :
            paper_analysis'[results[j][1]] # NoRow]_vars
  /\ [](\A w \in WorkerIds :
          wk[w].pc = "calling" => paper_analysis[wk[w].paper] = NoRow)

(* C18: the composite_score of every outcome lies in [0, 1] *)
C18_CompositeInUnit ==
  \A n \in 1..Len(score_calls) :
    /\ score_calls[n].outcome.composite_score >= 0
    /\ score_calls[n].outcome.composite_score <= One

(* C19: for a confident classifier score the weights that the call uses    *)
(* sum to 1                                                                *)
C19_WeightsSumToOne ==
  (Len(score_calls) > 0 /\ confident(score_input.gemini_analysis)) =>
    SumOver(DOMAIN weights, weights_used(score_input.gemini_analysis))
      = WeightUnit

WholeDays(n) ==
  (score_calls[n].clock - score_input.paper.published) \div HalfDaysPerDay

EarlierBatches == {pending[j] : j \in 1..Min(i, Len(pending))}

LaterBatches == {pending[j] : j \in (i + batch_size + 1)..Len(pending)}

C26_BatchSequence ==
  pc \in {"collect", "save", "mark"} =>
    /\ \A p \in LaterBatches : claims[p] = 0
    /\ \A p \in EarlierBatches : p \in saved \cup save_errors
    /\ pc = "collect" => Range(Batch) \cap (saved \cup save_errors) = {}
    /\ pc \in {"save", "mark"} =>
         /\ queue = <<>>
         /\ \A w \in WorkerIds : wk[w].pc = "idle"
         /\ ResultIds = Range(Batch)

C26_Witness ==
  /\ pc = "collect"
  /\ i > 0
  /\ \E w \in WorkerIds : wk[w].pc = "gated" /\ wk[w].paper \in Range(Batch)
  /\ \E p \in EarlierBatches : p \in SaveFailed
(* C29: a paper that fails quick_filter (the profile has keywords, the     *)
(* paper's text holds neither a built-in physics keyword nor a keyword of  *)
(* the profile) is never sent to the classifier; its outcome has score 0   *)
(* and is not flagged, and it is saved and marks the paper processed like  *)
(* any other outcome.                                                      *)
FailsFilter(p) ==
  user_profile = "kw" /\ ~has_physics(p) /\ ~has_user_relevance(p)

Unflagged == [relevance_score |-> 0, flagged |-> FALSE]

C29_FilteredNeverSent ==
  /\ \A w \in WorkerIds :
       wk[w].pc = "calling" => ~FailsFilter(wk[w].paper)
  /\ \A p \in Range(pending) :
       FailsFilter(p) =>
         /\ p \notin dispatched
         /\ p \in saved => paper_analysis[p] = Unflagged
         /\ pc = "done" =>
              /\ p \in saved \cup save_errors
              /\ p \notin save_errors => p \in marked /\ processed[p]
  /\ \A j \in 1..Len(results) :
       FailsFilter(results[j][1]) =>
         /\ results[j][2].relevance_score = 0
         /\ ~results[j][2].flagged

C29_Witness ==
  /\ pc = "done"
  /\ \E p, q \in Range(pending) :
       /\ FailsFilter(p)
       /\ p \in marked /\ processed[p] /\ paper_analysis[p] = Unflagged
       /\ q \in dispatched /\ q \in marked /\ paper_analysis[q].flagged
(* C30: the count fast_analyze_pending_papers returns is the number of     *)
(* papers the run both saved and marked processed, and is at most the      *)
(* number pending at its start; when no write to the store fails, every    *)
(* paper pending at the start is processed at the end and                  *)
(* get_unprocessed_papers returns none of them.                            *)
C30_CountIsPersisted ==
  pc = "done" =>
    /\ ret = Cardinality(saved \cap marked)
    /\ ret <= Len(pending)
    /\ save_errors = {} =>
         \A p \in Range(pending) :
           /\ processed[p]
           /\ p \notin Range(get_unprocessed_papers(papers, processed))

C30_Witness ==
  /\ pc = "done"
  /\ Len(pending) >= 2
  /\ save_errors = {}
  /\ analysis_errors # {}
  /\ ret = Len(pending)
  /\ get_unprocessed_papers(papers, processed) = <<>>
(* C27: at every moment at most min(max_workers, 15) classifier calls are  *)
(* in flight: at most max_workers papers are under analysis at once, and   *)
(* at most 15 workers are inside the semaphore-guarded call.               *)
InFlight == {w \in WorkerIds : wk[w].pc = "calling"}

UnderAnalysis == {w \in DOMAIN wk : wk[w].pc # "idle"}

C27_InFlightBounded ==
  /\ Cardinality(InFlight) <= Min(max_workers, Permits)
  /\ Cardinality(UnderAnalysis) <= max_workers
  /\ rate_limiter = Permits - Cardinality(InFlight)

C27_Witness ==
  /\ max_workers > Permits
  /\ Cardinality(InFlight) = Permits
  /\ \E w \in WorkerIds :
       wk[w].pc = "gated" /\ quick_filter(wk[w].paper, user_profile)

(* C28: the workers never deadlock on the rate gate: no worker waits for   *)
(* the semaphore while it holds request_lock, some step of a worker or of  *)
(* the coordinator is possible as long as a batch is under way, and        *)
(* whenever a batch ends, whichever calls raised, request_lock is free and *)
(* all 15 permits of the semaphore are released.                           *)
C28_NoGateDeadlock ==
  /\ \A w \in WorkerIds : wk[w].pc \in {"gated", "calling"} => w \notin request_lock
  /\ pc = "collect" => ENABLED (EndBatch \/ \E w \in WorkerIds : WorkerStep(w))
  /\ pc \in {"save", "mark", "done"} =>
       request_lock = {} /\ rate_limiter = Permits

C28_Witness ==
  /\ pc = "save"
  /\ Len(results) > Permits
  /\ analysis_errors # {}
  /\ request_lock = {}
  /\ rate_limiter = Permits
(* C21: detect_friend_authors returns at most one match for each entry of  *)
(* the roster; the matched author is the first author, in the order of the *)
(* paper, whose similarity to the entry reaches the threshold; an entry    *)
(* with no such author, or with an empty name, yields no match.            *)
Reaching(friend_name, paper_authors) ==
  {n \in 1..Len(paper_authors) :
     name_similarity(friend_name, paper_authors[n]) >= name_match_threshold}

Matched(roster, paper_authors) ==
  {f \in 1..Len(roster) :
     roster[f] # NoName /\ Reaching(roster[f], paper_authors) # {}}

C21_FirstAuthorWins ==
  fm_call.op = "detect_friend_authors" =>
    LET paper_authors == fm_call.args[1].authors.names
        roster == fm_call.args[2]
        found == fm_call.matches
    IN /\ Len(found) = Cardinality(Matched(roster, paper_authors))
       /\ \E entry \in [1..Len(found) -> Matched(roster, paper_authors)] :
            /\ \A a, b \in 1..Len(found) : a < b => entry[a] < entry[b]
            /\ \A a \in 1..Len(found) :
                 /\ found[a].friend = roster[entry[a]]
                 /\ \E n \in Reaching(roster[entry[a]], paper_authors) :
                      /\ \A m \in Reaching(roster[entry[a]], paper_authors) :
                           n <= m
                      /\ found[a].author_name = paper_authors[n]

C21_Witness ==
  /\ fm_call.op = "detect_friend_authors"
  /\ Len(fm_call.matches) = 1
  /\ Len(fm_call.args[2]) = 2
  /\ NoName \in Range(fm_call.args[2])
  /\ \E f \in 1..Len(fm_call.args[2]) :
       Cardinality(Reaching(fm_call.args[2][f],
                            fm_call.args[1].authors.names)) = 2
  /\ fm_call.matches[1].author_name = fm_call.args[1].authors.names[1]
  /\ fm_call.args[1].authors.names[1] # fm_call.args[1].authors.names[2]
(* The parts of the two names of the last name_similarity call *)
Norm(n) == normalize_name(fm_call.args[n])

Surname(n) == extract_name_components(fm_call.args[n]).surname

Initials(n) == Range(extract_name_components(fm_call.args[n]).initials)

SurnameMatch == SequenceMatcher(Surname(1), Surname(2))

FullMatch == ratio(SequenceMatcher(Norm(1), Norm(2)))

(* What the call returns when both names have an initial *)
ByInitials ==
  IF Initials(1) \cap Initials(2) # {}
  THEN (IF ratio_above(SurnameMatch, 950) THEN 950 ELSE 900)
  ELSE 300

(* C22: for two names whose normalized strings differ, name_similarity     *)
(* returns 0.0 when the surname similarity is below 0.85; otherwise, when  *)
(* both names have an initial, 0.95 (surname similarity above 0.95) or     *)
(* 0.90 if the initial sets intersect and 0.3 if not; so a pair with       *)
(* different surnames, or with the same surname and disjoint initials,     *)
(* never reaches the threshold 0.85; equal normalized strings give 1.0.    *)
C22_SurnameGate ==
  fm_call.op = "name_similarity" =>
    /\ Norm(1) = Norm(2) => fm_call.value = 1000
    /\ Norm(1) # Norm(2) =>
         /\ ratio_below(SurnameMatch, 850) => fm_call.value = 0
         /\ (/\ ~ratio_below(SurnameMatch, 850)
             /\ Initials(1) # {} /\ Initials(2) # {})
              => fm_call.value = ByInitials
         /\ Surname(1) # Surname(2) => fm_call.value < name_match_threshold
         /\ (Surname(1) = Surname(2) /\ Initials(1) \cap Initials(2) = {})
              => fm_call.value < name_match_threshold

(* C22, amended: as above up to the values by initials; a pair whose       *)
(* surname similarity is below 0.85, or whose names both have initials and *)
(* share none, never reaches the threshold; a pair of surnames at least    *)
(* 0.85 alike, equal or not, with a common initial does; when a name has   *)
(* no initial the value is the similarity of the normalized strings,       *)
(* raised to 0.7 when the surname similarity is above 0.9.                 *)
C22_NearSurnameGate ==
  fm_call.op = "name_similarity" =>
    /\ Norm(1) = Norm(2) => fm_call.value = 1000
    /\ Norm(1) # Norm(2) =>
         /\ ratio_below(SurnameMatch, 850) => fm_call.value = 0
         /\ (/\ ~ratio_below(SurnameMatch, 850)
             /\ Initials(1) # {} /\ Initials(2) # {})
              => /\ fm_call.value = ByInitials
                 /\ fm_call.value >= name_match_threshold
                      <=> Initials(1) \cap Initials(2) # {}
         /\ (/\ ~ratio_below(SurnameMatch, 850)
             /\ (Initials(1) = {} \/ Initials(2) = {}))
              => fm_call.value = IF ratio_above(SurnameMatch, 900)
                                 THEN Max(FullMatch, 700) ELSE FullMatch

C22_Witness ==
  /\ fm_call.op = "name_similarity"
  /\ Surname(1) # Surname(2)
  /\ Initials(1) \cap Initials(2) # {}
  /\ fm_call.value = 900
(* C25: detect_friend_authors, get_friend_boost, calculate_composite_score *)
(* and the steps of analyze_single_paper and analyze_paper_batch leave the *)
(* roster, the profile and the document they are given unchanged; the      *)
(* roster changes only through add_friend and remove_friend.               *)
PipelineCall ==
  /\ fm_call' # fm_call
  /\ fm_call'.op \in {"detect_friend_authors", "get_friend_boost",
                      "calculate_composite_score"}

AnalysisStep == wk' # wk \/ results' # results \/ queue' # queue

C25_PipelineFrame ==
  [][/\ friends' # friends => fm_call'.op \in {"add_friend", "remove_friend"}
     /\ (PipelineCall \/ AnalysisStep) =>
          /\ friends' = friends
          /\ document' = document
          /\ user_profile' = user_profile
          /\ score_input' = score_input
          /\ papers' = papers]_vars

C25_Witness ==
  /\ fm_call.op = "detect_friend_authors"
  /\ Len(fm_call.matches) > 0
  /\ document.authors.kind = "json"
  /\ document = fm_call.args[1]
  /\ friends = fm_call.args[2]
(* C23: in a ranked read (rank_papers, get_flagged_papers) the papers are  *)
(* ordered by score descending, papers of equal score by publication time  *)
(* descending and then by id ascending, so the order of the result does    *)
(* not depend on the order of the input or of insertion.                   *)
RankedBefore(x, y) ==
  \/ x.score > y.score
  \/ x.score = y.score /\ x.published > y.published
  \/ x.score = y.score /\ x.published = y.published /\ x.id < y.id

C23_TieBreak ==
  rank_call.op # "none" =>
    \A a, b \in 1..Len(rank_call.result) :
      a < b => RankedBefore(rank_call.result[a], rank_call.result[b])
(* The samples of the last scored profile and the citation potential the   *)
(* call returned                                                           *)
Samples == score_input.user_profile.previous_papers

Potential == score_calls[Len(score_calls)].outcome.citation_potential

(* The largest overlap of the samples at the indices of S, at most 1.0 *)
MaxOverlap(S) ==
  LET overlaps == {overlap(score_input.paper, Samples[n]) : n \in S}
  IN IF overlaps = {} THEN 0
     ELSE Min(CHOOSE o \in overlaps : \A q \in overlaps : q <= o, Milli)

(* C24: calculate_citation_potential returns the maximum, over all the     *)
(* prior-work samples of the profile, of the token overlap of the sample   *)
(* with the document, capped at 1.0, and 0.0 when there are no samples.    *)
C24_MaxOverAllSamples ==
  score_calls # <<>> =>
    Potential = MaxOverlap({n \in 1..Len(Samples) : Samples[n].words # {}})

(* C24, amended: the maximum is over the first five samples of the profile *)
(* and of those over the samples that are dicts with a non-empty text; it  *)
(* is 0.0 when there is no such sample.                                    *)
C24_MaxOverFirstFiveDicts ==
  score_calls # <<>> =>
    Potential = MaxOverlap({n \in 1..Len(Samples) :
                             /\ n <= 5
                             /\ Samples[n].is_dict
                             /\ Samples[n].words # {}})

C24_Witness ==
  /\ score_calls # <<>>
  /\ Len(Samples) = 6
  /\ \A n \in 1..5 : Samples[n].is_dict
  /\ Potential = 500
  /\ overlap(score_input.paper, Samples[6]) = 1000
====
